---- MODULE Spec2Model ----
(***************************************************************************)
(* Policy-assignment resolution of Arena-Baselines: the experiment set-up  *)
(* of train.py (run) and of the single-experiment example main.py.         *)
(* Strings that the code formats, splits or parses are sequences of        *)
(* one-character strings; Python's None is the empty tuple and a present   *)
(* optional value v is <<v>>; a dict is the sequence of its <<key, value>> *)
(* pairs in insertion order.                                               *)
(***************************************************************************)
EXTENDS Integers, Sequences, FiniteSets, TLC

\* ------------------------------------------------------------------ bounds
MaxAgents == 3
MaxExps == 2
MaxNodes == 1
MaxIdLen == 5
MaxIdemExps == 3

\* --------------------------------------------------------------- constants
POLICY_ID_PREFIX == <<"p", "o", "l", "i", "c", "y">>
SELFPLAY_POLICY_TO_TRAIN == 0

None == << >>
Some(v) == <<v>>
Absent == "<absent>"

\* ------------------------------------------------------- Python primitives
Digits == <<"0", "1", "2", "3", "4", "5", "6", "7", "8", "9">>
DigitSet == {Digits[i] : i \in 1..10}
DigitVal(c) == (CHOOSE i \in 1..10 : Digits[i] = c) - 1

RECURSIVE StrNat(_)
StrNat(n) == IF n < 10 THEN <<Digits[n + 1]>>
             ELSE StrNat(n \div 10) \o <<Digits[(n % 10) + 1]>>

\* str(i) of an int, as "{}".format(i) renders it
Str(i) == IF i < 0 THEN <<"-">> \o StrNat(0 - i) ELSE StrNat(i)

StartsWith(s, p) == Len(s) >= Len(p) /\ SubSeq(s, 1, Len(p)) = p

\* s.find(sep): the least 1-based index at which sep occurs in s, 0 if none
Find(s, sep) ==
    LET hits == {i \in 1..(Len(s) - Len(sep) + 1) : SubSeq(s, i, i + Len(sep) - 1) = sep}
    IN IF hits = {} THEN 0 ELSE CHOOSE i \in hits : \A j \in hits : i <= j

\* s.split(sep) for a non-empty sep: the pieces between the non-overlapping
\* occurrences of sep, scanned left to right
RECURSIVE Split(_, _)
Split(s, sep) ==
    LET i == Find(s, sep)
    IN IF i = 0 THEN <<s>>
       ELSE <<SubSeq(s, 1, i - 1)>> \o Split(SubSeq(s, i + Len(sep), Len(s)), sep)

RECURSIVE Strip(_)
Strip(s) == IF s # << >> /\ s[1] = " " THEN Strip(Tail(s))
            ELSE IF s # << >> /\ s[Len(s)] = " " THEN Strip(SubSeq(s, 1, Len(s) - 1))
            ELSE s

RECURSIVE DigitsValue(_)
DigitsValue(ds) == IF ds = << >> THEN 0
                   ELSE 10 * DigitsValue(SubSeq(ds, 1, Len(ds) - 1)) + DigitVal(ds[Len(ds)])

\* int(s): surrounding blanks stripped, an optional sign, then decimal digits
\* in which single underscores may separate digits; anything else is a
\* ValueError
Int_(s) ==
    LET t == Strip(s)
        signed == t # << >> /\ t[1] \in {"-", "+"}
        body == IF signed THEN Tail(t) ELSE t
        wellFormed == /\ body # << >>
                      /\ \A i \in 1..Len(body) : body[i] \in DigitSet \cup {"_"}
                      /\ body[1] # "_"
                      /\ body[Len(body)] # "_"
                      /\ \A i \in 1..(Len(body) - 1) : ~(body[i] = "_" /\ body[i + 1] = "_")
        ds == SelectSeq(body, LAMBDA c : c # "_")
        mag == DigitsValue(ds)
    IN IF ~wellFormed THEN [err |-> "ValueError", val |-> 0]
       ELSE [err |-> "none", val |-> IF signed /\ t[1] = "-" THEN 0 - mag ELSE mag]

\* ------------------------------------------------------------ dict helpers
DictKeys(d) == [i \in 1..Len(d) |-> d[i][1]]
DictKeySet(d) == {d[i][1] : i \in 1..Len(d)}
DictHas(d, k) == k \in DictKeySet(d)
DictGet(d, k) == d[CHOOSE i \in 1..Len(d) : d[i][1] = k][2]
DictSet(d, k, v) == IF DictHas(d, k)
                    THEN [i \in 1..Len(d) |-> IF d[i][1] = k THEN <<k, v>> ELSE d[i]]
                    ELSE Append(d, <<k, v>>)
EmptyDict == << >>

\* ------------------------------------------------------------------ state
VARIABLES
    entry,                  \* which script runs: "train" (train.py) or "main" (main.py)
    args,                   \* the parsed command line
    yaml_file,              \* train.py: what the file args.config_file holds
    pc,                     \* position in the script
    error,                  \* the exception that ended the script, or "none"
    experiments,            \* train.py: the experiments dict, as the sequence of its values
    exp_i,                  \* train.py: index of the experiment the for loop is at
    dummy_env,              \* the probe environment, None before the first probe
    number_agents,
    obs_space,
    act_space,
    policies,
    custom_action_dist,
    agent_id_prefix,        \* the cell the closures get_agent_i / policy_mapping_fn_i2i read
    policy_mapping_fn,
    policies_to_train,
    agent_id_to_policy_id,  \* main.py
    io,                     \* console writes and standard-input reads so far
    cluster_nodes,          \* cluster.add_node calls so far
    ray_initialized,        \* ray.init has been called
    trainer_config,         \* what run_experiments / tune.run was handed, None before
    world,                  \* per arena env name, the environment it denotes once constructed
    asked_id,               \* an agent id put to the mapping function on its own
    map_call                \* the trainer's last call of a policy_mapping_fn, None before

vars == <<entry, args, yaml_file, pc, error, experiments, exp_i, dummy_env, number_agents,
          obs_space, act_space, policies, custom_action_dist, agent_id_prefix,
          policy_mapping_fn, policies_to_train, agent_id_to_policy_id, io,
          cluster_nodes, ray_initialized, trainer_config, world, asked_id,
          map_call>>

locals == <<dummy_env, number_agents, obs_space, act_space, policies,
            custom_action_dist, agent_id_prefix, policy_mapping_fn,
            policies_to_train, agent_id_to_policy_id>>

resources == <<cluster_nodes, ray_initialized, trainer_config, asked_id, map_call>>

inputs == <<entry, args, yaml_file>>

\* ------------------------------------------------- the environment package
AGENT_ID_PREFIX == <<"a">>
ArenaEnv == "Arena-Tennis-Sparse-2T1P-Discrete"
ArenaEnv2 == "Arena-Pong-Sparse-2P-Discrete"
ArenaEnvs == {ArenaEnv, ArenaEnv2}
OtherEnv == "CartPole-v0"
ObsSpace == "Box(84, 84, 1)"
ActionSpaceClasses == {"Discrete", "Box", "MultiDiscrete"}

\* arena.is_all_arena_env
is_all_arena_env(env) == env \in ArenaEnvs

\* dummy_env.get_agent_id(agent_i): "<prefix>_<index>"
get_agent_id(agent_i) == AGENT_ID_PREFIX \o <<"_">> \o Str(agent_i)

ConventionalIds(n) == {get_agent_id(i) : i \in 0..(n - 1)}
MalformedId == AGENT_ID_PREFIX \o <<"_", "x">>

\* what get_agent_ids() of an environment with n agents may hold: the
\* conventional ids, or these and one id outside the convention
AgentIdSets(n) == {ConventionalIds(n), ConventionalIds(n) \cup {MalformedId}}

\* the environments ArenaRllibEnv(...) may construct
DummyEnvs == UNION {{[number_agents |-> n, observation_space |-> ObsSpace,
                      action_space |-> [class |-> k], agent_ids |-> ids,
                      agent_id_prefix |-> AGENT_ID_PREFIX] :
                        k \in ActionSpaceClasses, ids \in AgentIdSets(n)} :
                    n \in 1..MaxAgents}

\* the environments the name may denote: any, until one has been constructed
Denoted(name) == IF world[name] = None THEN DummyEnvs ELSE {world[name][1]}

\* ------------------------------------------------------------------ inputs
Strategies == {"independent", "self_play", "moving_average"}

\* one experiment of the YAML file: run and env may be missing, env may be
\* given inside config only
Experiment(run, env, config_env, policy_assignment) ==
    [run |-> run, env |-> env,
     config |-> [env |-> config_env, policy_assignment |-> policy_assignment,
                 multiagent |-> None]]

\* the shapes of experiment the loop of train.py tells apart
YamlExperiment ==
    {Experiment(r, ArenaEnv, Absent, p) : r \in {"PPO", "DQN"}, p \in Strategies}
    \cup {Experiment("PPO", OtherEnv, Absent, "independent"),
          Experiment(Absent, ArenaEnv, Absent, "independent"),
          Experiment("PPO", Absent, ArenaEnv, "independent"),
          Experiment("PPO", Absent, Absent, "independent")}

YamlFiles == UNION {[1..k -> YamlExperiment] : k \in 1..MaxExps}

TrainArgs == {[config_file |-> TRUE, run |-> Absent, env |-> Absent,
               policy_assignment |-> "independent", ray_num_nodes |-> n] :
                 n \in 0..MaxNodes}
             \cup
             {[config_file |-> FALSE, run |-> r, env |-> e,
               policy_assignment |-> "independent", ray_num_nodes |-> 0] :
                 r \in {Absent, "PPO"}, e \in {Absent, ArenaEnv}}

MainArgs == {[env_id |-> ArenaEnv, policy_assignment |-> p] : p \in Strategies}

\* ------------------------------------------------------ resolution helpers
\* train.py 126-127, main.py 51-52
get_policy_id(policy_i) == POLICY_ID_PREFIX \o <<"_">> \o Str(policy_i)

PolicySpec(obs, act, extra) == <<None, obs, act, extra>>

\* for agent_i in range(lo, hi): policies[get_policy_id(agent_i)] = spec
RECURSIVE PutPolicies(_, _, _, _)
PutPolicies(d, lo, hi, spec) ==
    IF lo >= hi THEN d
    ELSE PutPolicies(DictSet(d, get_policy_id(lo), spec), lo + 1, hi, spec)

\* the tests on exp["config"]["policy_assignment"]
IsIndependent(policy_assignment) == policy_assignment \in {"independent"}
\* mutant: whatever is not independent is taken for self_play
IsSelfPlayLoose(policy_assignment) == policy_assignment \notin {"independent"}

IsSelfPlay(policy_assignment) == policy_assignment \in {"self_play"}

\* exp["run"] not in ["PPO"]
RunSupportsSelfPlay(run) == run \in {"PPO"}

\* mutant: every action space that is not Discrete gets Deterministic
PlayingActionDistAny(act) ==
    IF act.class = "Discrete" THEN Some("DeterministicCategorical")
    ELSE Some("Deterministic")

\* the dispatch on act_space.__class__.__name__: the playing policies'
\* custom_action_dist, None where the code raises NotImplementedError
PlayingActionDist(act) ==
    IF act.class = "Discrete" THEN Some("DeterministicCategorical")
    ELSE IF act.class = "Box" THEN Some("Deterministic")
    ELSE None

\* get_agent_i of train.py, reading the closure cell agent_id_prefix
get_agent_i(agent_id) ==
    LET parts == Split(agent_id, agent_id_prefix[1] \o <<"_">>)
    IN IF Len(parts) < 2 THEN [err |-> "IndexError", val |-> 0]
       ELSE Int_(parts[2])

policy_mapping_fn_i2i(agent_id) ==
    LET r == get_agent_i(agent_id)
    IN IF r.err # "none" THEN [err |-> r.err, val |-> << >>]
       ELSE [err |-> "none", val |-> get_policy_id(r.val)]

\* main.py: lambda agent_id: agent_id_to_policy_id[agent_id]
policy_mapping_lambda(agent_id) ==
    IF DictHas(agent_id_to_policy_id, agent_id)
    THEN [err |-> "none", val |-> DictGet(agent_id_to_policy_id, agent_id)]
    ELSE [err |-> "KeyError", val |-> << >>]

\* a call of the function object stored under "policy_mapping_fn"
CallMappingFn(fn, agent_id) ==
    IF fn = "policy_mapping_fn_i2i" THEN policy_mapping_fn_i2i(agent_id)
    ELSE policy_mapping_lambda(agent_id)

Crash(e) == pc' = "crashed" /\ error' = e

\* ------------------------------------------------------------------- Init
Init ==
    /\ entry \in {"train", "main"}
    /\ args \in (IF entry = "train" THEN TrainArgs ELSE MainArgs)
    /\ yaml_file \in (IF entry = "train" /\ args.config_file THEN YamlFiles ELSE {<< >>})
    /\ pc = (IF entry = "train" THEN "load" ELSE "main_start")
    /\ error = "none"
    /\ experiments = << >>
    /\ exp_i = 1
    /\ dummy_env = None
    /\ number_agents = None
    /\ obs_space = None
    /\ act_space = None
    /\ policies = None
    /\ custom_action_dist = None
    /\ agent_id_prefix = None
    /\ policy_mapping_fn = None
    /\ policies_to_train = None
    /\ agent_id_to_policy_id = EmptyDict
    /\ io = << >>
    /\ cluster_nodes = 0
    /\ ray_initialized = FALSE
    /\ trainer_config = None
    /\ world = [name \in ArenaEnvs |-> None]
    /\ asked_id = None
    /\ map_call = None

exp == experiments[exp_i]

\* ----------------------------------------------------------- train.py run
\* train.py 60-93: the experiments, from the YAML file or from the arguments
LoadExperiments ==
    /\ entry = "train" /\ pc = "load"
    /\ \E eof \in (IF args.config_file THEN {FALSE} ELSE BOOLEAN) :
         IF args.config_file
         THEN /\ experiments' = yaml_file
              /\ pc' = "for" /\ UNCHANGED <<error, io>>
         ELSE /\ io' = Append(io, "input: WARNING: it is recommended to use -f CONFIG.yaml")
              /\ IF eof
                 THEN Crash("EOFError") /\ UNCHANGED experiments
                 ELSE /\ experiments' =
                           <<Experiment(args.run, Absent, args.env, args.policy_assignment)>>
                      /\ pc' = "for" /\ UNCHANGED error
    /\ UNCHANGED <<inputs, exp_i, locals, resources, world>>

\* train.py 95-105: the checks at the head of the loop body (args.eager, which
\* only sets exp["config"]["eager"], is left out)
BeginExperiment ==
    /\ entry = "train" /\ pc = "for" /\ exp_i <= Len(experiments)
    /\ IF exp.run = Absent
       THEN /\ Crash("SystemExit")
            /\ io' = Append(io, "stderr: the following arguments are required: --run")
            /\ UNCHANGED exp_i
       ELSE IF exp.env = Absent /\ exp.config.env = Absent
       THEN /\ Crash("SystemExit")
            /\ io' = Append(io, "stderr: the following arguments are required: --env")
            /\ UNCHANGED exp_i
       ELSE IF exp.env = Absent
       THEN Crash("KeyError") /\ UNCHANGED <<io, exp_i>>
       ELSE IF is_all_arena_env(exp.env)
       THEN pc' = "probe" /\ UNCHANGED <<error, io, exp_i>>
       ELSE exp_i' = exp_i + 1 /\ UNCHANGED <<pc, error, io>>
    /\ UNCHANGED <<inputs, experiments, locals, resources, world>>

\* train.py 107-124: the probe environment and what is read from it
ProbeEnvironment ==
    /\ entry = "train" /\ pc = "probe"
    /\ \E env \in Denoted(exp.env) :
         /\ dummy_env' = Some(env)
         /\ number_agents' = Some(env.number_agents)
         /\ obs_space' = Some(env.observation_space)
         /\ act_space' = Some(env.action_space)
         /\ world' = [world EXCEPT ![exp.env] = Some(env)]
    /\ pc' = "policies"
    /\ UNCHANGED <<inputs, error, experiments, exp_i, policies, custom_action_dist,
                   agent_id_prefix, policy_mapping_fn, policies_to_train,
                   agent_id_to_policy_id, io, resources>>

\* mutant: the dict of the previous experiment is used again
StalePolicies == IF policies = None THEN EmptyDict ELSE policies[1]

\* train.py 135 and 144, main.py 55: policies = {}
FreshPolicies == EmptyDict

\* mutant: the loop starts at agent 1
IndependentPoliciesFromOne ==
    PutPolicies(FreshPolicies, 1, number_agents[1],
                PolicySpec(obs_space[1], act_space[1], EmptyDict))

\* train.py 134-138, main.py 55-58
IndependentPolicies ==
    PutPolicies(FreshPolicies, 0, number_agents[1],
                PolicySpec(obs_space[1], act_space[1], EmptyDict))

\* train.py 144-149
LearningPolicy ==
    DictSet(FreshPolicies, get_policy_id(SELFPLAY_POLICY_TO_TRAIN),
            PolicySpec(obs_space[1], act_space[1], EmptyDict))

\* mutant: the playing policies get no custom_action_dist
PlayingPoliciesExploring(d, dist) ==
    PutPolicies(d, 1, number_agents[1],
                PolicySpec(obs_space[1], act_space[1], EmptyDict))

\* train.py 183-189
PlayingPolicies(d, dist) ==
    PutPolicies(d, 1, number_agents[1],
                PolicySpec(obs_space[1], act_space[1],
                           DictSet(EmptyDict, "custom_action_dist", dist)))

\* train.py 129-192: the policies according to policy_assignment
BuildPolicies ==
    /\ entry = "train" /\ pc = "policies"
    /\ IF IsIndependent(exp.config.policy_assignment)
       THEN /\ policies' = Some(IndependentPolicies)
            /\ pc' = "mapping_fn"
            /\ UNCHANGED <<error, io, custom_action_dist>>
       ELSE IF IsSelfPlay(exp.config.policy_assignment)
       THEN /\ io' = Append(io, "print: WARNING: Testing.....")
            /\ IF ~RunSupportsSelfPlay(exp.run)
               THEN /\ policies' = Some(LearningPolicy)
                    /\ Crash("NotImplementedError")
                    /\ UNCHANGED custom_action_dist
               ELSE IF PlayingActionDist(act_space[1]) = None
               THEN /\ policies' = Some(LearningPolicy)
                    /\ Crash("NotImplementedError")
                    /\ UNCHANGED custom_action_dist
               ELSE /\ custom_action_dist' = PlayingActionDist(act_space[1])
                    /\ policies' = Some(PlayingPolicies(LearningPolicy,
                                                        PlayingActionDist(act_space[1])[1]))
                    /\ pc' = "mapping_fn"
                    /\ UNCHANGED error
       ELSE /\ policies' = None
            /\ Crash("NotImplementedError")
            /\ UNCHANGED <<io, custom_action_dist>>
    /\ UNCHANGED <<inputs, experiments, exp_i, dummy_env, number_agents, obs_space,
                   act_space, agent_id_prefix, policy_mapping_fn, policies_to_train,
                   agent_id_to_policy_id, resources, world>>

\* train.py 194-212: the closure that maps agent i to policy i
BuildMappingFn ==
    /\ entry = "train" /\ pc = "mapping_fn"
    /\ IF IsIndependent(exp.config.policy_assignment)
          \/ IsSelfPlay(exp.config.policy_assignment)
       THEN /\ agent_id_prefix' = Some(dummy_env[1].agent_id_prefix)
            /\ policy_mapping_fn' = Some("policy_mapping_fn_i2i")
            /\ pc' = "to_train"
            /\ UNCHANGED error
       ELSE /\ policy_mapping_fn' = None
            /\ Crash("NotImplementedError")
            /\ UNCHANGED agent_id_prefix
    /\ UNCHANGED <<inputs, experiments, exp_i, dummy_env, number_agents, obs_space,
                   act_space, policies, custom_action_dist, policies_to_train,
                   agent_id_to_policy_id, io, resources, world>>

\* train.py 214-230: the policies to train; self_play waits on standard input
BuildPoliciesToTrain ==
    /\ entry = "train" /\ pc = "to_train"
    /\ \E eof \in BOOLEAN :
         IF IsIndependent(exp.config.policy_assignment)
         THEN /\ policies_to_train' = Some(DictKeys(policies[1]))
              /\ pc' = "multiagent"
              /\ UNCHANGED <<error, io>>
         ELSE IF IsSelfPlay(exp.config.policy_assignment)
         THEN /\ policies_to_train' = Some(<<get_policy_id(SELFPLAY_POLICY_TO_TRAIN)>>)
              /\ io' = Append(io, "input: TODO: load learning agent")
              /\ IF eof THEN Crash("EOFError")
                 ELSE pc' = "multiagent" /\ UNCHANGED error
         ELSE /\ policies_to_train' = None
              /\ Crash("NotImplementedError")
              /\ UNCHANGED io
    /\ UNCHANGED <<inputs, experiments, exp_i, dummy_env, number_agents, obs_space,
                   act_space, policies, custom_action_dist, agent_id_prefix,
                   policy_mapping_fn, agent_id_to_policy_id, resources, world>>

\* mutant: policies_to_train is not written
MultiagentWithoutTrain ==
    LET m1 == IF policies # None THEN DictSet(EmptyDict, "policies", policies[1])
              ELSE EmptyDict
    IN IF policy_mapping_fn # None
       THEN DictSet(m1, "policy_mapping_fn", policy_mapping_fn[1]) ELSE m1

\* train.py 232-244: exp["config"]["multiagent"]
Multiagent ==
    LET m0 == EmptyDict
        m1 == IF policies # None THEN DictSet(m0, "policies", policies[1]) ELSE m0
        m2 == IF policy_mapping_fn # None
              THEN DictSet(m1, "policy_mapping_fn", policy_mapping_fn[1]) ELSE m1
        m3 == IF policies_to_train # None
              THEN DictSet(m2, "policies_to_train", policies_to_train[1]) ELSE m2
    IN m3

\* train.py 232-247: the multiagent part is written, policy_assignment deleted
AssembleMultiagent ==
    /\ entry = "train" /\ pc = "multiagent"
    /\ experiments' = [experiments EXCEPT
                         ![exp_i].config.multiagent = Some(Multiagent),
                         ![exp_i].config.policy_assignment = Absent]
    /\ exp_i' = exp_i + 1
    /\ pc' = "for"
    /\ UNCHANGED <<inputs, error, locals, io, resources, world>>

\* train.py 249-258: after the loop, one cluster.add_node per requested node
AddClusterNode ==
    /\ entry = "train" /\ pc = "for" /\ exp_i > Len(experiments)
    /\ cluster_nodes < args.ray_num_nodes
    /\ cluster_nodes' = cluster_nodes + 1
    /\ UNCHANGED <<inputs, pc, error, experiments, exp_i, locals, io,
                   ray_initialized, trainer_config, world, asked_id, map_call>>

\* mutant: ray.init is called before the loop has finished
RayInitDuringLoop ==
    /\ entry = "train" /\ pc = "for"
    /\ cluster_nodes = args.ray_num_nodes
    /\ ~ray_initialized
    /\ ray_initialized' = TRUE
    /\ pc' = (IF exp_i > Len(experiments) THEN "run" ELSE pc)
    /\ UNCHANGED <<inputs, error, experiments, exp_i, locals, io,
                   cluster_nodes, trainer_config, world, asked_id, map_call>>

\* train.py 259-267: ray.init, on the cluster or on args.ray_address
RayInit ==
    /\ entry = "train" /\ pc = "for" /\ exp_i > Len(experiments)
    /\ cluster_nodes = args.ray_num_nodes
    /\ ray_initialized' = TRUE
    /\ pc' = "run"
    /\ UNCHANGED <<inputs, error, experiments, exp_i, locals, io,
                   cluster_nodes, trainer_config, world, asked_id, map_call>>

\* train.py 269-275: run_experiments(experiments, ...)
RunExperiments ==
    /\ entry = "train" /\ pc = "run"
    /\ trainer_config' = Some(experiments)
    /\ pc' = "training"
    /\ UNCHANGED <<inputs, error, experiments, exp_i, locals, io,
                   cluster_nodes, ray_initialized, world, asked_id, map_call>>

\* -------------------------------------------------------------- main.py
\* main.py 32-34
MainRayInit ==
    /\ entry = "main" /\ pc = "main_start"
    /\ ray_initialized' = TRUE
    /\ pc' = "main_probe"
    /\ UNCHANGED <<inputs, error, experiments, exp_i, locals, io,
                   cluster_nodes, trainer_config, world, asked_id, map_call>>

\* main.py 36-49
MainProbeEnvironment ==
    /\ entry = "main" /\ pc = "main_probe"
    /\ \E env \in Denoted(args.env_id) :
         /\ dummy_env' = Some(env)
         /\ number_agents' = Some(env.number_agents)
         /\ obs_space' = Some(env.observation_space)
         /\ act_space' = Some(env.action_space)
         /\ world' = [world EXCEPT ![args.env_id] = Some(env)]
    /\ pc' = "main_policies"
    /\ UNCHANGED <<inputs, error, experiments, exp_i, policies, custom_action_dist,
                   agent_id_prefix, policy_mapping_fn, policies_to_train,
                   agent_id_to_policy_id, io, resources>>

\* main.py 54-58: one policy per agent, whatever the policy assignment
MainBuildPolicies ==
    /\ entry = "main" /\ pc = "main_policies"
    /\ policies' = Some(IndependentPolicies)
    /\ pc' = "main_mapping"
    /\ UNCHANGED <<inputs, error, experiments, exp_i, dummy_env, number_agents,
                   obs_space, act_space, custom_action_dist, agent_id_prefix,
                   policy_mapping_fn, policies_to_train, agent_id_to_policy_id, io,
                   resources, world>>

\* main.py 65-68: agent_id_to_policy_id[get_agent_id(agent_i)] = get_policy_id(agent_i)
RECURSIVE PutAgents(_, _, _)
PutAgents(d, lo, hi) ==
    IF lo >= hi THEN d
    ELSE PutAgents(DictSet(d, get_agent_id(lo), get_policy_id(lo)), lo + 1, hi)

\* main.py 60-70
MainBuildMapping ==
    /\ entry = "main" /\ pc = "main_mapping"
    /\ IF IsIndependent(args.policy_assignment)
       THEN /\ agent_id_to_policy_id' = PutAgents(EmptyDict, 0, number_agents[1])
            /\ pc' = "main_coverage"
            /\ UNCHANGED error
       ELSE /\ agent_id_to_policy_id' = EmptyDict
            /\ Crash("NotImplementedError")
    /\ UNCHANGED <<inputs, experiments, exp_i, dummy_env, number_agents, obs_space,
                   act_space, policies, custom_action_dist, agent_id_prefix,
                   policy_mapping_fn, policies_to_train, io, resources, world>>

\* main.py 72-76: every agent id of the environment has to be a key
AllAgentIdsCovered ==
    \A agent_id \in dummy_env[1].agent_ids : DictHas(agent_id_to_policy_id, agent_id)

MainCheckCoverage ==
    /\ entry = "main" /\ pc = "main_coverage"
    /\ IF AllAgentIdsCovered
       THEN pc' = "main_run" /\ UNCHANGED error
       ELSE Crash("Exception")
    /\ UNCHANGED <<inputs, experiments, exp_i, locals, io, resources, world>>

\* main.py 84-89: the multiagent part of the config given to tune.run
MainMultiagent ==
    DictSet(DictSet(EmptyDict, "policies", policies[1]),
            "policy_mapping_fn", "lambda")

\* main.py 78-109: tune.run("PPO", config={...})
MainTuneRun ==
    /\ entry = "main" /\ pc = "main_run"
    /\ trainer_config' =
         Some(<<[run |-> "PPO", env |-> args.env_id,
                 config |-> [env |-> "arena_env", policy_assignment |-> Absent,
                             multiagent |-> Some(MainMultiagent)]]>>)
    /\ pc' = "training"
    /\ UNCHANGED <<inputs, error, experiments, exp_i, locals, io,
                   cluster_nodes, ray_initialized, world, asked_id, map_call>>

\* ------------------------------------------------------------ the trainer
\* the experiments the trainer was handed
Handed == IF trainer_config = None THEN << >> ELSE trainer_config[1]

HasMultiagent(k) == k \in 1..Len(Handed) /\ Handed[k].config.multiagent # None

\* the trainer asks experiment k's policy_mapping_fn for the policy of an
\* agent id its environment produced
MapAgent(k, id) ==
    CallMappingFn(DictGet(Handed[k].config.multiagent[1], "policy_mapping_fn"), id)

TrainerMapsAgent ==
    /\ pc = "training"
    /\ \E k \in 1..Len(Handed) :
         /\ HasMultiagent(k)
         /\ \E id \in world[Handed[k].env][1].agent_ids :
              map_call' = Some([exp |-> k, agent_id |-> id, result |-> MapAgent(k, id)])
    /\ UNCHANGED <<inputs, pc, error, experiments, exp_i, locals, io,
                   cluster_nodes, ray_initialized, trainer_config, world, asked_id>>

\* ------------------------------------------------------------------- Next
Next ==
    \/ LoadExperiments
    \/ BeginExperiment
    \/ ProbeEnvironment
    \/ BuildPolicies
    \/ BuildMappingFn
    \/ BuildPoliciesToTrain
    \/ AssembleMultiagent
    \/ AddClusterNode
    \/ RayInit
    \/ RunExperiments
    \/ MainRayInit
    \/ MainProbeEnvironment
    \/ MainBuildPolicies
    \/ MainBuildMapping
    \/ MainCheckCoverage
    \/ MainTuneRun
    \/ TrainerMapsAgent

Spec == Init /\ [][Next]_vars

\* ------------------------------------------ the mapping function on its own
IdAlphabet == {"a", "_", "0", "1", "-"}
AgentIdStrings == UNION {[1..n -> IdAlphabet] : n \in 0..MaxIdLen}

InitParse ==
    /\ entry = "train"
    /\ args \in {a \in TrainArgs : a.config_file /\ a.ray_num_nodes = 0}
    /\ yaml_file = << >>
    /\ pc = "map"
    /\ error = "none"
    /\ experiments = << >>
    /\ exp_i = 1
    /\ dummy_env = None
    /\ number_agents = None
    /\ obs_space = None
    /\ act_space = None
    /\ policies = None
    /\ custom_action_dist = None
    /\ agent_id_prefix = Some(AGENT_ID_PREFIX)
    /\ policy_mapping_fn = Some("policy_mapping_fn_i2i")
    /\ policies_to_train = None
    /\ agent_id_to_policy_id = EmptyDict
    /\ io = << >>
    /\ cluster_nodes = 0
    /\ ray_initialized = FALSE
    /\ trainer_config = None
    /\ world = [name \in ArenaEnvs |-> None]
    /\ asked_id \in {Some(id) : id \in AgentIdStrings}
    /\ map_call = None

\* train.py 202-206: policy_mapping_fn_i2i(agent_id)
MapAskedId ==
    /\ pc = "map"
    /\ map_call' = Some([exp |-> 0, agent_id |-> asked_id[1],
                         result |-> CallMappingFn(policy_mapping_fn[1], asked_id[1])])
    /\ pc' = "mapped"
    /\ UNCHANGED <<inputs, error, experiments, exp_i, locals, io, cluster_nodes,
                   ray_initialized, trainer_config, world, asked_id>>

NextParse == MapAskedId

SpecParse == InitParse /\ [][NextParse]_vars

\* --------------------------------------- several arena experiments in a file
IdemExperiment == {Experiment("PPO", e, Absent, p) :
                     e \in ArenaEnvs, p \in {"independent", "self_play"}}

\* environments self_play supports, with the conventional agent ids
IdemEnvs == {env \in DummyEnvs : /\ PlayingActionDist(env.action_space) # None
                                 /\ env.agent_ids = ConventionalIds(env.number_agents)}

InitIdem ==
    /\ entry = "train"
    /\ args \in {a \in TrainArgs : a.config_file /\ a.ray_num_nodes = 0}
    /\ yaml_file \in [1..MaxIdemExps -> IdemExperiment]
    /\ pc = "load"
    /\ error = "none"
    /\ experiments = << >>
    /\ exp_i = 1
    /\ dummy_env = None
    /\ number_agents = None
    /\ obs_space = None
    /\ act_space = None
    /\ policies = None
    /\ custom_action_dist = None
    /\ agent_id_prefix = None
    /\ policy_mapping_fn = None
    /\ policies_to_train = None
    /\ agent_id_to_policy_id = EmptyDict
    /\ io = << >>
    /\ cluster_nodes = 0
    /\ ray_initialized = FALSE
    /\ trainer_config = None
    /\ world \in [ArenaEnvs -> {Some(env) : env \in IdemEnvs}]
    /\ asked_id = None
    /\ map_call = None

NextIdem ==
    \/ LoadExperiments
    \/ BeginExperiment
    \/ ProbeEnvironment
    \/ BuildPolicies
    \/ BuildMappingFn
    \/ BuildPoliciesToTrain
    \/ AssembleMultiagent

SpecIdem == InitIdem /\ [][NextIdem]_vars

\* ------------------------------------------------------- reading the state
Recognized == {"independent", "self_play"}
ThreeKeys == {"policies", "policy_mapping_fn", "policies_to_train"}

\* policy_<i> and <prefix>_<i>, written out
PolicyName(i) == <<"p", "o", "l", "i", "c", "y", "_", Digits[i + 1]>>
AgentName(i) == <<"a", "_", Digits[i + 1]>>

FromFile == entry = "train" /\ args.config_file

\* experiment k as it was given, before resolution deleted policy_assignment
Given(k) == IF FromFile THEN yaml_file[k] ELSE experiments[k]

\* the experiments whose resolution has produced a multiagent part
Produced == IF entry = "train" THEN experiments ELSE Handed
ProducedStrategy(k) == IF entry = "train" THEN Given(k).config.policy_assignment
                       ELSE args.policy_assignment
IsProduced(k) == k \in 1..Len(Produced) /\ Produced[k].config.multiagent # None
MultiagentOf(k) == Produced[k].config.multiagent[1]
PoliciesOf(k) == DictGet(MultiagentOf(k), "policies")
AgentsOf(k) == world[Produced[k].env][1].number_agents
ActionClassOf(k) == world[Produced[k].env][1].action_space.class
MapsTo(k, id) == CallMappingFn(DictGet(MultiagentOf(k), "policy_mapping_fn"), id)
ExtraOf(k, policy_id) == DictGet(PoliciesOf(k), policy_id)[4]

\* agent index i maps to policy_i, and no two agents to the same policy
IndexToIndex(k) ==
    /\ \A i \in 0..(AgentsOf(k) - 1) :
         MapsTo(k, AgentName(i)) = [err |-> "none", val |-> PolicyName(i)]
    /\ \A p \in DictKeySet(PoliciesOf(k)) :
         Cardinality({i \in 0..(AgentsOf(k) - 1) : MapsTo(k, AgentName(i)).val = p}) = 1

\* the arena experiment the loop of train.py is resolving
Resolving(k) ==
    /\ entry = "train" /\ k = exp_i /\ k \in 1..Len(experiments)
    /\ experiments[k].env \in ArenaEnvs

Range(f) == {f[i] : i \in DOMAIN f}
PolicyNames(n) == {PolicyName(i) : i \in 0..(n - 1)}
DeterministicDist(class) == IF class = "Discrete" THEN "DeterministicCategorical"
                            ELSE "Deterministic"

SelfPlayResult(k) ==
    /\ DictGet(MultiagentOf(k), "policies_to_train") = <<PolicyName(0)>>
    /\ DictKeySet(PoliciesOf(k)) = PolicyNames(AgentsOf(k))
    /\ ExtraOf(k, PolicyName(0)) = EmptyDict
    /\ \A i \in 1..(AgentsOf(k) - 1) :
         ExtraOf(k, PolicyName(i)) =
             <<<<"custom_action_dist", DeterministicDist(ActionClassOf(k))>>>>
    /\ IndexToIndex(k)

IsSelfPlayOfTwo(k) ==
    /\ entry = "train" /\ k \in 1..Len(experiments)
    /\ experiments[k].env \in ArenaEnvs
    /\ Given(k).config.policy_assignment = "self_play"
    /\ world[experiments[k].env] # None
    /\ AgentsOf(k) >= 2

\* C2 (amended): under `self_play` with number_agents >= 2, resolution gets
\* past the policies only when the run is PPO and the action space is
\* Discrete or Box; whenever it succeeds, policy_0 alone is in
\* policies_to_train and has empty extra options, every other policy id
\* policy_1 .. policy_{n-1} carries the deterministic custom_action_dist of
\* the action space, and agent index i maps to policy_i.
C2_SelfPlay ==
    \A k \in 1..Len(experiments) :
        IsSelfPlayOfTwo(k) =>
            /\ (Resolving(k) /\ pc \in {"mapping_fn", "to_train", "multiagent"}) =>
                   /\ Given(k).run = "PPO"
                   /\ ActionClassOf(k) \in {"Discrete", "Box"}
            /\ IsProduced(k) =>
                   /\ Given(k).run = "PPO"
                   /\ ActionClassOf(k) \in {"Discrete", "Box"}
                   /\ SelfPlayResult(k)

C2_Witness ==
    \E k \in 1..Len(experiments) :
        IsSelfPlayOfTwo(k) /\ IsProduced(k) /\ AgentsOf(k) >= 3

\* C2 as claimed: under `self_play` with number_agents >= 2 resolution never
\* fails as unsupported, and yields the self-play result.
C2_SelfPlayAlwaysSucceeds ==
    \A k \in 1..Len(experiments) :
        IsSelfPlayOfTwo(k) =>
            /\ ~(Resolving(k) /\ pc = "crashed" /\ error = "NotImplementedError")
            /\ IsProduced(k) => SelfPlayResult(k)

\* the resolution that an unrecognized strategy has ended
FailedUnrecognized ==
    /\ pc = "crashed" /\ error = "NotImplementedError"
    /\ IF entry = "train"
       THEN Given(exp_i).config.policy_assignment \notin Recognized
       ELSE args.policy_assignment \notin Recognized

\* C3 (amended): a strategy that is not recognized makes resolution fail
\* with NotImplementedError in both scripts, nothing is written to the
\* experiment configuration and the trainer is never called; train.py fails
\* before any policy spec is built, main.py (which recognizes `independent`
\* only) after it has built the per-agent policy specs.
C3_Unrecognized ==
    /\ entry = "train" =>
         \A k \in 1..Len(experiments) :
             ( /\ experiments[k].env \in ArenaEnvs
               /\ Given(k).run # Absent
               /\ Given(k).config.policy_assignment \notin Recognized ) =>
                 /\ exp_i <= k
                 /\ experiments[k].config.multiagent = None
                 /\ trainer_config = None
                 /\ exp_i = k =>
                      /\ pc \in {"for", "probe", "policies", "crashed"}
                      /\ pc = "crashed" =>
                           error = "NotImplementedError" /\ policies = None
    /\ (entry = "main" /\ args.policy_assignment # "independent") =>
         /\ trainer_config = None
         /\ pc \in {"main_start", "main_probe", "main_policies", "main_mapping", "crashed"}
         /\ pc = "crashed" =>
              error = "NotImplementedError" /\ agent_id_to_policy_id = EmptyDict

C3_Witness ==
    /\ entry = "train" /\ FailedUnrecognized
    /\ exp_i = 2 /\ experiments[1].config.multiagent # None
    /\ experiments[2].config.multiagent = None

\* C3 as claimed: in every entry point the failure comes before any policy
\* spec is constructed.
C3_FailsBeforeAnyPolicy == FailedUnrecognized => policies = None

\* C4 as claimed: once the configuration is with the trainer, every agent id
\* the environment produces maps to exactly one policy id of the experiment.
C4_FailFast ==
    pc = "training" =>
        \A k \in 1..Len(Handed) :
            HasMultiagent(k) =>
                \A id \in world[Handed[k].env][1].agent_ids :
                    /\ MapAgent(k, id).err = "none"
                    /\ DictHas(DictGet(Handed[k].config.multiagent[1], "policies"),
                               MapAgent(k, id).val)

\* "<prefix>_" at the front, once, and the whole remainder a base-10 integer
WellShaped(id) ==
    LET sep == AGENT_ID_PREFIX \o <<"_">>
        rest == SubSeq(id, Len(sep) + 1, Len(id))
    IN /\ StartsWith(id, sep)
       /\ Find(rest, sep) = 0
       /\ Int_(rest).err = "none"

\* C5 as claimed: an agent id is mapped to a policy id only if it is the
\* prefix, an underscore and a base-10 integer, and nothing else.
C5_OnlyPrefixedDecimal ==
    map_call # None =>
        (map_call[1].result.err = "none" => WellShaped(map_call[1].agent_id))

\* C6 (amended): train.py leaves every experiment either without a
\* multiagent part or with exactly policies, policy_mapping_fn and
\* policies_to_train; main.py hands the trainer exactly policies and
\* policy_mapping_fn, never policies_to_train.
C6_AllOrNothing ==
    /\ \A k \in 1..Len(experiments) :
         \/ experiments[k].config.multiagent = None
         \/ DictKeySet(experiments[k].config.multiagent[1]) = ThreeKeys
    /\ entry = "train" => Handed \in {<< >>, experiments}
    /\ entry = "main" =>
         \A k \in 1..Len(Handed) :
             /\ HasMultiagent(k)
             /\ DictKeySet(Handed[k].config.multiagent[1]) = {"policies", "policy_mapping_fn"}

C6_Witness ==
    /\ entry = "train" /\ pc = "crashed" /\ exp_i = 2
    /\ experiments[1].config.multiagent # None
    /\ DictKeySet(experiments[1].config.multiagent[1]) = ThreeKeys
    /\ experiments[2].config.multiagent = None
    /\ policies # None

\* C6 as claimed: no multiagent part that reaches the trainer has only some
\* of the three keys.
C6_ThreeKeysOrNone ==
    \A k \in 1..Len(Handed) :
        \/ Handed[k].config.multiagent = None
        \/ DictKeySet(Handed[k].config.multiagent[1]) = ThreeKeys

ResolutionFailed == pc = "crashed" /\ error \in {"NotImplementedError", "Exception", "EOFError"}

\* C7 (amended): in train.py a failure leaves no cluster node added, ray not
\* initialised and the trainer not called, and these happen only after every
\* experiment has been resolved; main.py initialises ray before resolution,
\* so a failure there finds ray initialised, but adds no node and never
\* calls the trainer.
C7_NoResourcesBeforeResolution ==
    /\ entry = "train" =>
         /\ pc = "crashed" =>
              cluster_nodes = 0 /\ ~ray_initialized /\ trainer_config = None
         /\ (cluster_nodes > 0 \/ ray_initialized \/ trainer_config # None) =>
              /\ error = "none"
              /\ exp_i > Len(experiments)
              /\ \A k \in 1..Len(experiments) :
                   experiments[k].env \in ArenaEnvs =>
                       experiments[k].config.multiagent # None
    /\ entry = "main" =>
         /\ cluster_nodes = 0
         /\ pc = "crashed" => trainer_config = None
         /\ trainer_config # None =>
              /\ error = "none"
              /\ args.policy_assignment = "independent"
              /\ AllAgentIdsCovered

C7_Witness ==
    /\ entry = "train" /\ ResolutionFailed /\ exp_i = 2
    /\ experiments[1].config.multiagent # None
    /\ args.ray_num_nodes > 0
    /\ cluster_nodes = 0 /\ ~ray_initialized /\ trainer_config = None

\* C7 as claimed: in any run a failed resolution finds no cluster node, ray
\* not initialised and the trainer not called.
C7_FailureBeforeResources ==
    ResolutionFailed =>
        cluster_nodes = 0 /\ ~ray_initialized /\ trainer_config = None

\* C8 as claimed: between reading the probe environment and producing the
\* three values, resolution writes nothing to the console and reads nothing
\* from standard input.
C8_NoIO ==
    [][(pc \in {"policies", "mapping_fn", "to_train", "multiagent",
                "main_policies", "main_mapping", "main_coverage"}) => (io' = io)]_vars

\* agent ids on which two mapping functions are compared
ComparedIds == {AgentName(i) : i \in 0..MaxAgents} \cup {MalformedId, AGENT_ID_PREFIX, << >>}

\* C9: two experiments of one run with identical inputs get the same policy
\* ids, the same policies_to_train and mapping functions that agree on every
\* agent id, whatever was resolved before them.
C9_Idempotent ==
    \A i, j \in 1..Len(experiments) :
        (i < j /\ IsProduced(i) /\ IsProduced(j) /\ Given(i) = Given(j)) =>
            /\ DictKeys(PoliciesOf(i)) = DictKeys(PoliciesOf(j))
            /\ DictGet(MultiagentOf(i), "policies_to_train")
                   = DictGet(MultiagentOf(j), "policies_to_train")
            /\ \A id \in ComparedIds : MapsTo(i, id) = MapsTo(j, id)

C9_Witness ==
    \E i, j \in 1..Len(experiments) :
        /\ i + 1 < j /\ IsProduced(i) /\ IsProduced(j) /\ Given(i) = Given(j)
        /\ IsProduced(i + 1) /\ AgentsOf(i + 1) > AgentsOf(i)

\* C10: under `self_play` an action space that is neither Discrete nor Box
\* makes resolution fail with NotImplementedError, the error of an
\* unrecognized strategy, with no playing policy built and nothing written
\* to the experiment configuration.
C10_UnsupportedActionSpace ==
    \A k \in 1..Len(experiments) :
        ( /\ entry = "train" /\ experiments[k].env \in ArenaEnvs
          /\ Given(k).run # Absent
          /\ Given(k).config.policy_assignment = "self_play"
          /\ world[experiments[k].env] # None
          /\ ActionClassOf(k) \notin {"Discrete", "Box"} ) =>
            /\ exp_i <= k
            /\ experiments[k].config.multiagent = None
            /\ trainer_config = None
            /\ exp_i = k =>
                 /\ pc \in {"for", "probe", "policies", "crashed"}
                 /\ pc = "crashed" =>
                      /\ error = "NotImplementedError"
                      /\ DictKeySet(policies[1]) = {PolicyName(0)}
                      /\ DictGet(policies[1], PolicyName(0))[4] = EmptyDict

C10_Witness ==
    /\ entry = "train" /\ pc = "crashed" /\ error = "NotImplementedError"
    /\ Given(exp_i).run = "PPO"
    /\ Given(exp_i).config.policy_assignment = "self_play"
    /\ ActionClassOf(exp_i) = "MultiDiscrete"
    /\ experiments[exp_i].config.multiagent = None

====
